---- MODULE Spec2Model ----
(***************************************************************************)
(* PortWatch (src/main.go): per-target TCP monitor loops sharing one       *)
(* size-rotated log file.                                                  *)
(*                                                                         *)
(* Units.  Time is counted in ticks, TicksPerSec ticks to the second, so   *)
(* that Duration.Round(time.Second) is not the identity.  File sizes are   *)
(* counted in tokens: a file's content is a sequence of string tokens and  *)
(* a log line is a short token sequence (its length plays len(p)).  The    *)
(* 50 MiB threshold of main.go:385 is scaled to MaxLogSize tokens.         *)
(***************************************************************************)
EXTENDS Integers, Sequences, FiniteSets, TLC

\* ------------------------------------------------------------------ bounds

\* The wall clock runs from 1 to MaxTime ticks (0 is the zero time.Time).
MaxTime == 2
\* Ticks per second.
TicksPerSec == 2
\* The rotation threshold (rotatingWriter.maxSize), scaled to tokens: of the
\* log the monitor loops share, and of the sink checked alone.
MaxLogSize == 2
SinkMaxSize == 4
\* Longest payload handed to Write in the sink specification: longer than
\* the sink's threshold.
MaxWriteLen == 5

VARIABLES
    clock,      \* wall clock, in ticks
    states,     \* main's []*TargetState: one record per monitored target
    pc,         \* each monitor goroutine's position
    loc,        \* each monitor goroutine's local variables
    cyc,        \* history: what the current cycle of each goroutine has done
    hist,       \* history: each target's current down episode
    logMu,      \* holder of the standard logger's mutex (0: free)
    w,          \* the rotatingWriter: [path, maxSize, file]
    fs,         \* the log files on disk: path -> [exists, data]
    lastWrite   \* history: the last complete call of rotatingWriter.Write

vars == <<clock, states, pc, loc, cyc, hist, logMu, w, fs, lastWrite>>

\* ------------------------------------------------------- rotating log sink

\* "portwatch.log" (main.go:386); a path is a sequence of name components so
\* that w.path + ".1" is a concatenation.
LogPath == <<"portwatch.log">>

BackupSuffix == <<".1">>

\* Every path the model's file system knows: the active file, its backup
\* and the name a second backup generation would have.
Paths == {LogPath, LogPath \o BackupSuffix, LogPath \o <<".2">>}

NoFile == [exists |-> FALSE, data |-> <<>>]

\* os.OpenFile(path, O_CREATE|O_WRONLY|O_APPEND): creates a missing file,
\* keeps the content of an existing one.
OpenAppend(f, path) ==
    IF f[path].exists THEN f
    ELSE [f EXCEPT ![path] = [exists |-> TRUE, data |-> <<>>]]

\* os.OpenFile(path, O_CREATE|O_WRONLY|O_TRUNC): the file exists and is
\* empty afterwards.
OpenTrunc(f, path) == [f EXCEPT ![path] = [exists |-> TRUE, data |-> <<>>]]

\* os.Rename(from, to): replaces `to`; fails (ok = FALSE) without effect.
Rename(f, from, to, ok) ==
    IF ok /\ f[from].exists
    THEN [f EXCEPT ![to] = f[from], ![from] = NoFile]
    ELSE f

\* Mutant of CloseHandle: the handle is dropped (w.file = nil) when closed.
CloseHandleDrops(h) == "nil"

\* w.file.Close(): the handle stays in w.file, closed.
CloseHandle(h) == IF h = "nil" THEN "nil" ELSE "closed"

\* rotatingWriter.open.  Result: [w, fs, err].
open(w0, f0, openOk) ==
    LET h == CloseHandle(w0.file) IN
    IF ~openOk
    THEN [w |-> [w0 EXCEPT !.file = h], fs |-> f0, err |-> TRUE]
    ELSE [w |-> [w0 EXCEPT !.file = "open"], fs |-> OpenAppend(f0, w0.path),
          err |-> FALSE]

\* The name rotate renames the active file to.
BackupPath(path) == path \o BackupSuffix

\* rotatingWriter.rotate.  The result of os.Rename is discarded.
rotate(w0, f0, renameOk, openOk) ==
    LET h  == CloseHandle(w0.file)
        f1 == Rename(f0, w0.path, BackupPath(w0.path), renameOk)
    IN
    IF ~openOk
    THEN [w |-> [w0 EXCEPT !.file = h], fs |-> f1, err |-> TRUE]
    ELSE [w |-> [w0 EXCEPT !.file = "open"], fs |-> OpenTrunc(f1, w0.path),
          err |-> FALSE]

\* w.file.Stat(): fails on a closed handle.
StatOk(w0) == w0.file = "open"

StatSize(w0, f0) == Len(f0[w0.path].data)

\* Mutant of NeedsRotate: the size alone is tested, without len(p).
NeedsRotateSizeOnly(w0, f0, p) ==
    StatOk(w0) /\ StatSize(w0, f0) > w0.maxSize

\* Mutant of NeedsRotate: >= for >.
NeedsRotateAtThreshold(w0, f0, p) ==
    StatOk(w0) /\ StatSize(w0, f0) + Len(p) >= w0.maxSize

\* The rotation test of Write (main.go:118).
NeedsRotate(w0, f0, p) ==
    StatOk(w0) /\ StatSize(w0, f0) + Len(p) > w0.maxSize

\* w.file.Write(p): n tokens of p reach the file; n < Len(p) is an error,
\* and a closed handle takes nothing.  Result: [fs, n, err].
fileWrite(w0, f0, p, n) ==
    IF w0.file # "open"
    THEN [fs |-> f0, n |-> 0, err |-> TRUE]
    ELSE [fs |-> [f0 EXCEPT ![w0.path].data = @ \o SubSeq(p, 1, n)],
          n |-> n, err |-> n < Len(p)]

\* The outcomes the operating system may give one call of Write(p): of the
\* open of a missing handle, of the rename and the re-creation of a
\* rotation, and the number of tokens the append takes.  An outcome is
\* drawn only for the calls this Write makes.
IoOutcomes(w0, f0, p) ==
    LET rot == w0.file = "nil" \/ NeedsRotate(w0, f0, p) IN
    [open   : IF w0.file = "nil" THEN BOOLEAN ELSE {TRUE},
     rename : IF rot THEN BOOLEAN ELSE {TRUE},
     trunc  : IF rot THEN BOOLEAN ELSE {TRUE},
     n      : {0, Len(p)}]

\* rotatingWriter.Write as one call.  Result: [w, fs, n, err, rotated].
Write(w0, f0, p, io) ==
    LET s1 == IF w0.file = "nil" THEN open(w0, f0, io.open)
              ELSE [w |-> w0, fs |-> f0, err |-> FALSE]
    IN
    IF s1.err
    THEN [w |-> s1.w, fs |-> s1.fs, n |-> 0, err |-> TRUE, rotated |-> FALSE]
    ELSE
      LET need == NeedsRotate(s1.w, s1.fs, p)
          s2   == IF need THEN rotate(s1.w, s1.fs, io.rename, io.trunc) ELSE s1
      IN
      IF s2.err
      THEN [w |-> s2.w, fs |-> s2.fs, n |-> 0, err |-> TRUE, rotated |-> need]
      ELSE LET s3 == fileWrite(s2.w, s2.fs, p, io.n) IN
           [w |-> s2.w, fs |-> s3.fs, n |-> s3.n, err |-> s3.err,
            rotated |-> need]

\* newRotatingWriter (main.go:78-84) on a file system f0.
newRotatingWriter(path, maxSize, f0) ==
    open([path |-> path, maxSize |-> maxSize, file |-> "nil"], f0, TRUE)

\* ------------------------------------------------- sink alone: SinkSpec

\* Payloads of a Write: one of every length up to MaxWriteLen, each of its
\* own token, so that a file's content shows which writes it holds and in
\* which order.
Block(k) == [i \in 1..k |-> ToString(k)]

Payloads == {Block(k) : k \in 0..MaxWriteLen}

StartFiles ==
    {NoFile} \cup {[exists |-> TRUE, data |-> d] : d \in {[i \in 1..k |-> "old"] : k \in 0..(SinkMaxSize + 1)}}

StartBackups == {NoFile, [exists |-> TRUE, data |-> <<"older">>]}

NoWrite ==
    [called |-> FALSE, p |-> <<>>, pre |-> [x \in Paths |-> NoFile], preFile |-> "nil",
     n |-> 0, err |-> FALSE, rotated |-> FALSE]

SinkInit ==
    /\ clock = 1
    /\ states = <<>>
    /\ pc = <<>>
    /\ loc = <<>>
    /\ cyc = <<>>
    /\ hist = <<>>
    /\ logMu = 0
    /\ \E a \in StartFiles, b \in StartBackups :
         LET f0 == [x \in Paths |-> IF x = LogPath THEN a
                                    ELSE IF x = BackupPath(LogPath) THEN b
                                    ELSE NoFile]
             r  == newRotatingWriter(LogPath, SinkMaxSize, f0)
         IN w = r.w /\ fs = r.fs
    /\ lastWrite = NoWrite

\* One call of Write(p), with the outcomes the operating system gives it.
SinkWrite ==
    \E p \in Payloads : \E io \in IoOutcomes(w, fs, p) :
      LET r == Write(w, fs, p, io) IN
      /\ w' = r.w
      /\ fs' = r.fs
      /\ lastWrite' = [called |-> TRUE, p |-> p, pre |-> fs, preFile |-> w.file,
                       n |-> r.n, err |-> r.err, rotated |-> r.rotated]
      /\ UNCHANGED <<clock, states, pc, loc, cyc, hist, logMu>>

SinkNext == SinkWrite

SinkSpec == SinkInit /\ [][SinkNext]_vars

\* ---------------------------------------------------------- configuration

NoAddr == ""

\* cfg.Targets of the configurations the model starts from: one entry with
\* both addresses (two sibling targets), and a list whose second entry has no
\* address and whose third has no port (one target).
ConfigTargets ==
    { << [Name |-> "web", IPv4 |-> "10.0.0.1", IPv6 |-> "fd00::1", DPort |-> 443] >>,
      << [Name |-> "", IPv4 |-> "10.0.0.2", IPv6 |-> NoAddr, DPort |-> 80],
         [Name |-> "none", IPv4 |-> NoAddr, IPv6 |-> NoAddr, DPort |-> 80],
         [Name |-> "noport", IPv4 |-> "10.0.0.3", IPv6 |-> NoAddr, DPort |-> 0] >> }

\* A fresh TargetState: Down and DownSince keep Go's zero values.
NewTargetState(name, ip, ver, network, port) ==
    [Name |-> name, IP |-> ip, IPVersion |-> ver, Network |-> network,
     Port |-> port, Down |-> FALSE, DownSince |-> 0]

\* Mutant of EntryStates: the IPv6 address is used only when there is no IPv4
\* address (`else if`).
EntryStatesOneFamily(tc) ==
    IF tc.DPort <= 0 THEN <<>>
    ELSE IF tc.IPv4 # NoAddr
         THEN <<NewTargetState(tc.Name, tc.IPv4, "IPv4", "tcp4", tc.DPort)>>
         ELSE IF tc.IPv6 # NoAddr
              THEN <<NewTargetState(tc.Name, tc.IPv6, "IPv6", "tcp6", tc.DPort)>>
              ELSE <<>>

\* The TargetStates one configuration entry yields (main.go:437-459).
EntryStates(tc) ==
    IF tc.DPort <= 0 THEN <<>>
    ELSE (IF tc.IPv4 # NoAddr
          THEN <<NewTargetState(tc.Name, tc.IPv4, "IPv4", "tcp4", tc.DPort)>>
          ELSE <<>>)
         \o
         (IF tc.IPv6 # NoAddr
          THEN <<NewTargetState(tc.Name, tc.IPv6, "IPv6", "tcp6", tc.DPort)>>
          ELSE <<>>)

\* The loop of main.go:435-460 over cfg.Targets.
RECURSIVE BuildStates(_)
BuildStates(tcs) ==
    IF tcs = <<>> THEN <<>>
    ELSE EntryStates(Head(tcs)) \o BuildStates(Tail(tcs))

\* ------------------------------------------------------------- durations

\* time.Duration.Round(m): to the nearest multiple of m, halves away from
\* zero.
Round(d, m) ==
    LET a == IF d < 0 THEN -d ELSE d
        r == a % m
        q == IF r + r < m THEN a - r ELSE a + m - r
    IN IF d < 0 THEN -q ELSE q

\* Mutant of Downtime: the duration cut to whole seconds (Truncate for Round).
DowntimeTruncated(ts, downSince) ==
    ((ts - downSince) \div TicksPerSec) * TicksPerSec

\* ts.Sub(downSince).Round(time.Second) (main.go:286 and :334), in ticks.
Downtime(ts, downSince) == Round(ts - downSince, TicksPerSec)

\* Duration.String() of a whole number of seconds.
DurString(d) == ToString(d \div TicksPerSec)

\* --------------------------------------------------------------- log lines

\* What log.Printf hands to the writer for each of the program's lines.  The
\* sink reads nothing but the length of a line, so a line is rendered as
\* that many "." tokens: transition lines are two tokens long, the others
\* one.  What a line says is kept in cyc.
Render(n) == [k \in 1..n |-> "."]

StartLine == Render(1)

UpLine(t, dur) == Render(2)

DownLine(t, err) == Render(2)

MtrErrLine(t) == Render(1)

SaveErrLine(kind) == Render(1)

AlertErrLine(dir) == Render(1)

\* ----------------------------------------------------------- checkTarget

\* tcpPing's results: nil, a net.Error with Timeout(), any other error.
ProbeOutcomes == {"ok", "timeout", "other"}

\* Mutant of IsTimeout: every failure counts as a timeout.
IsTimeoutAny(err) == err # "ok"

\* err.(net.Error) && nerr.Timeout() (main.go:349).
IsTimeout(err) == err = "timeout"

\* Mutant of Transition: the down branch without its `if !t.Down`.
TransitionUnguarded(t, err) ==
    IF err = "ok" THEN (IF t.Down THEN "up" ELSE "none") ELSE "down"

\* The transition a probe result asks for (main.go:331, :332, :341).
Transition(t, err) ==
    IF err = "ok" THEN (IF t.Down THEN "up" ELSE "none")
    ELSE (IF ~t.Down THEN "down" ELSE "none")

\* Mutant of GoDown: the status is set, the time is not.
GoDownUnstamped(t, now) == [t EXCEPT !.Down = TRUE]

\* t.Down = true; t.DownSince = now (main.go:342-343).
GoDown(t, now) == [t EXCEPT !.Down = TRUE, !.DownSince = now]

\* Mutant of GoUp: the status is left as it is.
GoUpStaysDown(t) == t

\* t.Down = false (main.go:336).
GoUp(t) == [t EXCEPT !.Down = FALSE]

\* Mutant of StoreState: the two targets of one configuration entry share
\* one TargetState.
StoreStateShared(sts, i, t) ==
    [j \in DOMAIN sts |->
       IF sts[j].Name = sts[i].Name
       THEN [sts[j] EXCEPT !.Down = t.Down, !.DownSince = t.DownSince]
       ELSE sts[j]]

\* The write of one goroutine to its own TargetState: checkTarget holds
\* the pointer t and nothing else.
StoreState(sts, i, t) == [sts EXCEPT ![i] = t]

\* mtrOut after runMTR returned (text, mtrErr) (main.go:350-356).
MtrOutOf(text, mtrErr) ==
    IF mtrErr THEN <<"mtr error: ">> \o text ELSE text

NoMtr == <<"no mtr (non-timeout error)">>

\* runMTR's combined output: nothing, or a report.
MtrTexts == {<<>>, <<"hops">>}

\* saveMTRToFile's ways to end: written, or one of its three logged failures.
SaveOutcomes == {"ok", "failed"}

Targets == DOMAIN states

IdleLoc == [now |-> 0, err |-> "ok", mtrOut |-> <<>>, line |-> <<>>, ret |-> "check"]

\* The record of a cycle: the status it started from, the probe's result and
\* time, and what it has done so far.
IdleCyc == [active |-> FALSE, startDown |-> FALSE, now |-> 0, err |-> "ok",
            logged |-> FALSE, traces |-> 0, saves |-> 0, downAlerts |-> 0,
            upAlerts |-> 0, delivered |-> "none", dur |-> 0, logDur |-> 0]

\* The record of a target's latest down episode: the time of the probe that
\* opened it (0 before the first one), the down alerts attempted in it and
\* what became of the last of them; and, over the whole run, the down alerts
\* attempted less the up alerts attempted.
NoEpisode == [since |-> 0, alerts |-> 0, delivered |-> "none", unmatched |-> 0]

\* A failed probe of a target that is up opens an episode.
OpensEpisode(t, err) == ~t.Down /\ err # "ok"

\* log.Printf(line): the goroutine goes for the logger's mutex and comes
\* back at `ret`.
CallLog(i, line, ret, l) ==
    /\ pc' = [pc EXCEPT ![i] = "lock"]
    /\ loc' = [loc EXCEPT ![i] = [l EXCEPT !.line = line, !.ret = ret]]

\* Mutant of AfterDownLog: the alert follows the DOWN line at once.
AfterDownLogAlert == "alertDown"

\* Where checkTarget goes on once the DOWN line is logged: to the trace
\* branch (main.go:348-362).
AfterDownLog == "trace"

\* The probe and the branch of checkTarget (main.go:324-345).
Probe(i) ==
    /\ pc[i] = "check"
    /\ LET t == states[i] IN
       IF t.IP = NoAddr
       THEN /\ pc' = [pc EXCEPT ![i] = "sleep"]
            /\ UNCHANGED <<states, loc, cyc, hist>>
       ELSE \E err \in ProbeOutcomes :
            LET now == clock
                l   == [IdleLoc EXCEPT !.now = now, !.err = err]
                c   == [IdleCyc EXCEPT !.active = TRUE, !.startDown = t.Down,
                                       !.err = err]
                h   == IF OpensEpisode(t, err)
                       THEN [NoEpisode EXCEPT !.since = now,
                                              !.unmatched = hist[i].unmatched]
                       ELSE hist[i]
                tr  == Transition(t, err)
            IN
            CASE tr = "up" ->
                   LET d == Downtime(now, t.DownSince) IN
                   /\ CallLog(i, UpLine(t, d), "alertUp", l)
                   /\ cyc' = [cyc EXCEPT ![i] = [c EXCEPT !.now = now, !.logged = TRUE,
                                                          !.logDur = d]]
                   /\ hist' = [hist EXCEPT ![i] = h]
                   /\ UNCHANGED states
              [] tr = "down" ->
                   /\ states' = StoreState(states, i, GoDown(t, now))
                   /\ CallLog(i, DownLine(t, err), AfterDownLog, l)
                   /\ cyc' = [cyc EXCEPT ![i] = [c EXCEPT !.now = now, !.logged = TRUE]]
                   /\ hist' = [hist EXCEPT ![i] = h]
              [] OTHER ->
                   /\ pc' = [pc EXCEPT ![i] = "sleep"]
                   /\ cyc' = [cyc EXCEPT ![i] = c]
                   /\ hist' = [hist EXCEPT ![i] = h]
                   /\ UNCHANGED <<states, loc>>
    /\ UNCHANGED <<clock, logMu, w, fs, lastWrite>>

\* The trace branch (main.go:348-362).
Trace(i) ==
    /\ pc[i] = "trace"
    /\ LET l == loc[i] IN
       IF IsTimeout(l.err)
       THEN \E text \in MtrTexts, mtrErr \in BOOLEAN :
              LET l1 == [l EXCEPT !.mtrOut = MtrOutOf(text, mtrErr)] IN
              /\ IF mtrErr
                 THEN /\ CallLog(i, MtrErrLine(states[i]), "save", l1)
                      /\ cyc' = [cyc EXCEPT ![i].traces = @ + 1, ![i].logged = TRUE]
                 ELSE /\ pc' = [pc EXCEPT ![i] = "save"]
                      /\ loc' = [loc EXCEPT ![i] = l1]
                      /\ cyc' = [cyc EXCEPT ![i].traces = @ + 1]
       ELSE /\ pc' = [pc EXCEPT ![i] = "alertDown"]
            /\ loc' = [loc EXCEPT ![i].mtrOut = NoMtr]
            /\ UNCHANGED cyc
    /\ UNCHANGED <<clock, states, hist, logMu, w, fs, lastWrite>>

\* if mtrOut != "" { saveMTRToFile(...) } (main.go:357-359, :170-198).
Save(i) ==
    /\ pc[i] = "save"
    /\ IF loc[i].mtrOut # <<>>
       THEN \E res \in SaveOutcomes :
              IF res # "ok"
              THEN /\ CallLog(i, SaveErrLine(res), "alertDown", loc[i])
                   /\ cyc' = [cyc EXCEPT ![i].saves = @ + 1, ![i].logged = TRUE]
              ELSE /\ pc' = [pc EXCEPT ![i] = "alertDown"]
                   /\ cyc' = [cyc EXCEPT ![i].saves = @ + 1]
                   /\ UNCHANGED loc
       ELSE /\ pc' = [pc EXCEPT ![i] = "alertDown"]
            /\ UNCHANGED <<loc, cyc>>
    /\ UNCHANGED <<clock, states, hist, logMu, w, fs, lastWrite>>

\* The locals of checkTarget once the alert has been built from them.
AfterAlert(l) == [l EXCEPT !.now = 0, !.err = "ok", !.mtrOut = <<>>]

\* Mutant of AfterDelivery: a failed delivery takes the status back, so that
\* the next cycle sends the alert again.
RetryOnFailure(t, ok) == IF ok THEN t ELSE [t EXCEPT !.Down = ~t.Down]

\* What a delivery failure does to the TargetState: sendDownAlert and
\* sendUpAlert return nothing and log the error (main.go:279-281, :316-318).
AfterDelivery(t, ok) == t

\* sendDownAlert (main.go:364, :242-282): one request to the webhook, whose
\* failure is logged.
AlertDown(i) ==
    /\ pc[i] = "alertDown"
    /\ \E ok \in BOOLEAN :
         /\ states' = StoreState(states, i, AfterDelivery(states[i], ok))
         /\ hist' = [hist EXCEPT ![i].alerts = @ + 1,
                                 ![i].delivered = IF ok THEN "ok" ELSE "failed",
                                 ![i].unmatched = @ + 1]
         /\ IF ok
            THEN /\ pc' = [pc EXCEPT ![i] = "sleep"]
                 /\ loc' = [loc EXCEPT ![i] = AfterAlert(loc[i])]
                 /\ cyc' = [cyc EXCEPT ![i].downAlerts = @ + 1, ![i].delivered = "ok"]
            ELSE /\ CallLog(i, AlertErrLine("DOWN"), "sleep", AfterAlert(loc[i]))
                 /\ cyc' = [cyc EXCEPT ![i].downAlerts = @ + 1,
                                       ![i].delivered = "failed", ![i].logged = TRUE]
    /\ UNCHANGED <<clock, logMu, w, fs, lastWrite>>

\* sendUpAlert(cfg, t, t.DownSince, now) (main.go:335, :284-319).
AlertUp(i) ==
    /\ pc[i] = "alertUp"
    /\ LET d == Downtime(loc[i].now, states[i].DownSince) IN
       \E ok \in BOOLEAN :
         /\ states' = StoreState(states, i, AfterDelivery(states[i], ok))
         /\ IF ok
            THEN /\ pc' = [pc EXCEPT ![i] = "setUp"]
                 /\ loc' = [loc EXCEPT ![i] = AfterAlert(loc[i])]
                 /\ cyc' = [cyc EXCEPT ![i].upAlerts = @ + 1, ![i].delivered = "ok",
                                       ![i].dur = d]
            ELSE /\ CallLog(i, AlertErrLine("UP"), "setUp", AfterAlert(loc[i]))
                 /\ cyc' = [cyc EXCEPT ![i].upAlerts = @ + 1, ![i].delivered = "failed",
                                       ![i].dur = d, ![i].logged = TRUE]
    /\ hist' = [hist EXCEPT ![i].unmatched = @ - 1]
    /\ UNCHANGED <<clock, logMu, w, fs, lastWrite>>

\* t.Down = false; return (main.go:336-338).
SetUp(i) ==
    /\ pc[i] = "setUp"
    /\ states' = StoreState(states, i, GoUp(states[i]))
    /\ pc' = [pc EXCEPT ![i] = "sleep"]
    /\ UNCHANGED <<clock, loc, cyc, hist, logMu, w, fs, lastWrite>>

\* Mutant of LoopBack: the loop body runs once.
LoopExit == "exit"

\* Where monitorTarget goes after the sleep: for { ... } (main.go:371).
LoopBack == "check"

\* time.Sleep, then the next turn of monitorTarget's loop (main.go:371-374).
Sleep(i) ==
    /\ pc[i] = "sleep"
    /\ pc' = [pc EXCEPT ![i] = LoopBack]
    /\ loc' = [loc EXCEPT ![i] = IdleLoc]
    /\ cyc' = [cyc EXCEPT ![i] = IdleCyc]
    /\ UNCHANGED <<clock, states, hist, logMu, w, fs, lastWrite>>

\* ------------------------------------------------- logging from the loops

\* Mutant of MutexFree: the mutex is also taken for the length of every
\* trace and notification.
MutexHeldOverCalls(i) ==
    logMu = 0 /\ \A j \in Targets : pc[j] \notin {"trace", "alertDown", "alertUp"}

\* Mutant of MutexFree: Output does not wait for the mutex.
MutexFreeAlways(i) == TRUE

\* The standard logger serialises its output (log.SetOutput, main.go:392):
\* Output takes the logger's mutex before it calls the writer.
MutexFree(i) == logMu = 0

LogLock(i) ==
    /\ pc[i] = "lock"
    /\ MutexFree(i)
    /\ logMu' = i
    /\ pc' = [pc EXCEPT ![i] = "write"]
    /\ UNCHANGED <<clock, states, loc, cyc, hist, w, fs, lastWrite>>

\* The logger calls rotatingWriter.Write(line) under its mutex, drops the
\* result and releases the mutex.  The call is one step: while the mutex is
\* held no other goroutine touches the writer or the files.
LogWrite(i) ==
    /\ pc[i] = "write"
    /\ \E io \in IoOutcomes(w, fs, loc[i].line) :
         LET r == Write(w, fs, loc[i].line, io) IN
         /\ w' = r.w
         /\ fs' = r.fs
    /\ logMu' = 0
    /\ pc' = [pc EXCEPT ![i] = loc[i].ret]
    /\ loc' = [loc EXCEPT ![i].line = <<>>, ![i].ret = "check"]
    /\ UNCHANGED <<clock, states, cyc, hist, lastWrite>>

\* ------------------------------------------------------------ the system

\* Time passes.
Tick ==
    /\ clock < MaxTime
    /\ clock' = clock + 1
    /\ UNCHANGED <<states, pc, loc, cyc, hist, logMu, w, fs, lastWrite>>

\* What portwatch.log holds when the program starts.
SpecStartFiles ==
    {NoFile, [exists |-> TRUE, data |-> <<"old">>]}

\* main up to the launch of the goroutines (main.go:379-471): the writer is
\* set up, the targets are built, the start line is logged.  The clock is
\* left open.
Started ==
    /\ \E tcs \in ConfigTargets :
         /\ states = BuildStates(tcs)
         /\ Len(states) > 0
    /\ pc = [i \in DOMAIN states |-> "check"]
    /\ loc = [i \in DOMAIN states |-> IdleLoc]
    /\ cyc = [i \in DOMAIN states |-> IdleCyc]
    /\ hist = [i \in DOMAIN states |-> NoEpisode]
    /\ logMu = 0
    /\ \E a \in SpecStartFiles :
         LET f0 == [x \in Paths |-> IF x = LogPath THEN a ELSE NoFile]
             r  == newRotatingWriter(LogPath, MaxLogSize, f0)
             s  == Write(r.w, r.fs, StartLine,
                         [open |-> TRUE, rename |-> TRUE, trunc |-> TRUE,
                          n |-> Len(StartLine)])
         IN w = s.w /\ fs = s.fs
    /\ lastWrite = NoWrite

\* The program once main has launched the goroutines.
Init == clock = 1 /\ Started

\* One step of the goroutine of target i.
Step(i) ==
    \/ Probe(i)
    \/ LogLock(i)
    \/ LogWrite(i)
    \/ Trace(i)
    \/ Save(i)
    \/ AlertDown(i)
    \/ AlertUp(i)
    \/ SetUp(i)
    \/ Sleep(i)

Next == Tick \/ \E i \in Targets : Step(i)

Spec == Init /\ [][Next]_vars

\* Every index a target can have.
TargetIds == UNION {DOMAIN BuildStates(tcs) : tcs \in ConfigTargets}

\* A step of goroutine i, when there is one.
Run(i) == i \in Targets /\ Step(i)

\* The program started late, with the clock at the end of the modelled span:
\* the part of a run that goes on for ever, the clock having no more
\* readings to hand out.
FairInit == clock = MaxTime /\ Started

\* The goroutines' steps; every one of them leaves the clock alone.
FairNext == \E i \in Targets : Step(i)

\* The goroutines under Go's scheduler: a goroutine that can run does run,
\* and sync.Mutex hands the logger's mutex to a goroutine that keeps
\* waiting for it (starvation mode).
FairSpec ==
    /\ FairInit /\ [][FairNext]_vars
    /\ \A i \in TargetIds : WF_vars(Run(i))
    /\ \A i \in TargetIds : SF_vars(i \in Targets /\ LogLock(i))

\* ------------------------------------------------ trace files: TraceSpec

\* cfg.Targets of the configurations the trace files are checked on: the two
\* families of one entry; two entries of one name and port with different
\* addresses; an unnamed entry beside a named one on another port.
TraceConfigs ==
    { << [Name |-> "web", IPv4 |-> "10.0.0.1", IPv6 |-> "fd00::1", DPort |-> 443] >>,
      << [Name |-> "db", IPv4 |-> "10.0.0.2", IPv6 |-> NoAddr, DPort |-> 5432],
         [Name |-> "db", IPv4 |-> "10.0.0.3", IPv6 |-> NoAddr, DPort |-> 5432] >>,
      << [Name |-> "", IPv4 |-> "10.0.0.4", IPv6 |-> NoAddr, DPort |-> 80],
         [Name |-> "mail", IPv4 |-> "10.0.0.4", IPv6 |-> NoAddr, DPort |-> 25] >> }

\* name := t.Name; if name == "" { name = "target" } (main.go:184-187).
TraceName(t) == IF t.Name = "" THEN "target" ELSE t.Name

\* ts.Format("2006-01-02_15-04-05"): the time to the second.
Stamp(ts) == ToString(ts \div TicksPerSec)

\* fmt.Sprintf("%s_%s_%s_%d.txt", stamp, name, t.IPVersion, t.Port)
\* (main.go:188-193), as the sequence of its pieces.
FileName(ts, t) ==
    <<Stamp(ts), "_", TraceName(t), "_", t.IPVersion, "_", ToString(t.Port), ".txt">>

\* Every trace file name the configurations can produce.
TraceFiles ==
    UNION {{FileName(ts, BuildStates(tcs)[i]) :
              ts \in 1..MaxTime, i \in DOMAIN BuildStates(tcs)} : tcs \in TraceConfigs}

\* saveMTRToFile on the directory dir: os.WriteFile replaces the file of
\* that name; a failure (main.go:172, :179, :195) leaves the directory as it
\* is.
saveMTRToFile(dir, mtrOut, ts, t, res) ==
    IF res = "ok"
    THEN [dir EXCEPT ![FileName(ts, t)] = [exists |-> TRUE, data |-> mtrOut]]
    ELSE dir

\* The trace directory empty, every target up.  Here fs is the trace
\* directory, hist[i] the trace files target i has had written (the time of
\* the incident and the name of the file), and cyc[f] the target whose trace
\* file f holds (0: none).
TraceInit ==
    /\ clock = 1
    /\ \E tcs \in TraceConfigs : states = BuildStates(tcs)
    /\ pc = [i \in DOMAIN states |-> "check"]
    /\ loc = [i \in DOMAIN states |-> IdleLoc]
    /\ cyc = [f \in TraceFiles |-> 0]
    /\ hist = [i \in DOMAIN states |-> {}]
    /\ logMu = 0
    /\ w = newRotatingWriter(LogPath, MaxLogSize, [x \in Paths |-> NoFile]).w
    /\ fs = [f \in TraceFiles |-> NoFile]
    /\ lastWrite = NoWrite

\* A cycle of checkTarget that takes target i down on a timeout
\* (main.go:341-364), as far as the trace directory goes: the trace is run
\* and, unless it is empty, persisted under the cycle's `now`.
TraceDown(i) ==
    /\ Transition(states[i], "timeout") = "down"
    /\ IsTimeout("timeout")
    /\ states' = StoreState(states, i, GoDown(states[i], clock))
    /\ \E text \in MtrTexts, mtrErr \in BOOLEAN, res \in SaveOutcomes :
         LET mtrOut == MtrOutOf(text, mtrErr)
             f      == FileName(clock, states[i])
         IN
         IF mtrOut # <<>> /\ res = "ok"
         THEN /\ fs' = saveMTRToFile(fs, mtrOut, clock, states[i], res)
              /\ hist' = [hist EXCEPT ![i] = @ \cup {[at |-> clock, file |-> f]}]
              /\ cyc' = [cyc EXCEPT ![f] = i]
         ELSE UNCHANGED <<fs, hist, cyc>>
    /\ UNCHANGED <<clock, pc, loc, logMu, w, lastWrite>>

\* A cycle of checkTarget that takes target i up again (main.go:331-338).
TraceUp(i) ==
    /\ Transition(states[i], "ok") = "up"
    /\ states' = StoreState(states, i, GoUp(states[i]))
    /\ UNCHANGED <<clock, pc, loc, cyc, hist, logMu, w, fs, lastWrite>>

TraceNext ==
    \/ Tick
    \/ \E i \in Targets : TraceDown(i)
    \/ \E i \in Targets : TraceUp(i)

TraceSpec == TraceInit /\ [][TraceNext]_vars

\* ------------------------------------------------------ startup: MainSpec

\* What main finds when it starts: whether portwatch.log can be opened,
\* whether the configuration file loads, and the configuration loaded.
ZoneOk == "Europe/Berlin"

ZoneBad == "Mars/Olympus"

\* A configuration that passes every check, with a target list.
GoodConfig ==
    [Targets  |-> << [Name |-> "web", IPv4 |-> "10.0.0.1", IPv6 |-> NoAddr, DPort |-> 443] >>,
     IPv4 |-> NoAddr, IPv6 |-> NoAddr, DPort |-> 0,
     Webhook |-> "https://hook", Timezone |-> ZoneOk]

\* The configurations main is started with: the good one; the legacy shape;
\* and one for each way a configuration can be unusable.
StartConfigs ==
    { GoodConfig,
      [GoodConfig EXCEPT !.Targets = <<>>, !.IPv6 = "fd00::1", !.DPort = 53,
                         !.Timezone = ""],
      [GoodConfig EXCEPT !.Webhook = ""],
      [GoodConfig EXCEPT !.Timezone = ZoneBad],
      [GoodConfig EXCEPT !.Targets = <<>>],
      [GoodConfig EXCEPT !.Targets = <<>>, !.DPort = 53],
      [GoodConfig EXCEPT !.Targets =
         << [Name |-> "none", IPv4 |-> NoAddr, IPv6 |-> NoAddr, DPort |-> 80],
            [Name |-> "noport", IPv4 |-> "10.0.0.3", IPv6 |-> NoAddr, DPort |-> 0] >>] }

\* The legacy fallback (main.go:401-410).
LegacyTargets(cfg) ==
    IF Len(cfg.Targets) = 0 /\ (cfg.IPv4 # NoAddr \/ cfg.IPv6 # NoAddr \/ cfg.DPort # 0)
    THEN << [Name |-> "default", IPv4 |-> cfg.IPv4, IPv6 |-> cfg.IPv6, DPort |-> cfg.DPort] >>
    ELSE cfg.Targets

\* Mutant of WebhookMissing: the check is not made.
WebhookNeverMissing(cfg) == FALSE

\* cfg.Webhook == "" (main.go:412).
WebhookMissing(cfg) == cfg.Webhook = ""

\* The default of main.go:421-423.
ZoneOf(cfg) == IF cfg.Timezone = "" THEN ZoneOk ELSE cfg.Timezone

\* time.LoadLocation fails on a zone the system does not know.
LoadLocationOk(zone) == zone # ZoneBad

\* main's locals.
MainLocals(logOpen, loadOk, cfg) ==
    [logOpen |-> logOpen, loadOk |-> loadOk, cfg |-> cfg, states |-> <<>>]

\* log.Fatal: the process exits.
Fatal == pc' = [pc EXCEPT ![0] = "exit"]

\* main is goroutine 0; no other goroutine exists yet.
MainInit ==
    /\ clock = 1
    /\ states = <<>>
    /\ pc = [i \in {0} |-> "openLog"]
    /\ \E logOpen \in BOOLEAN, loadOk \in BOOLEAN, cfg \in StartConfigs :
         loc = [i \in {0} |-> MainLocals(logOpen, loadOk, cfg)]
    /\ cyc = <<>>
    /\ hist = <<>>
    /\ logMu = 0
    /\ w = [path |-> LogPath, maxSize |-> MaxLogSize, file |-> "nil"]
    /\ \E a \in SpecStartFiles :
         fs = [x \in Paths |-> IF x = LogPath THEN a ELSE NoFile]
    /\ lastWrite = NoWrite

\* newRotatingWriter and its check (main.go:386-392).
MainOpenLog ==
    /\ pc[0] = "openLog"
    /\ LET r == open(w, fs, loc[0].logOpen) IN
       IF r.err
       THEN Fatal /\ UNCHANGED <<w, fs>>
       ELSE /\ pc' = [pc EXCEPT ![0] = "loadConfig"]
            /\ w' = r.w
            /\ fs' = r.fs
    /\ UNCHANGED <<clock, states, loc, cyc, hist, logMu, lastWrite>>

\* loadConfig and the checks of the configuration (main.go:395-433).
MainLoadConfig ==
    /\ pc[0] = "loadConfig"
    /\ LET cfg  == loc[0].cfg
           cfg1 == [cfg EXCEPT !.Targets = LegacyTargets(cfg)]
       IN
       IF \/ ~loc[0].loadOk
          \/ WebhookMissing(cfg1)
          \/ ~LoadLocationOk(ZoneOf(cfg1))
          \/ Len(cfg1.Targets) = 0
       THEN Fatal /\ UNCHANGED loc
       ELSE /\ pc' = [pc EXCEPT ![0] = "build"]
            /\ loc' = [loc EXCEPT ![0].cfg = cfg1]
    /\ UNCHANGED <<clock, states, cyc, hist, logMu, w, fs, lastWrite>>

\* The construction of the targets and its check (main.go:435-464).
MainBuild ==
    /\ pc[0] = "build"
    /\ LET built == BuildStates(loc[0].cfg.Targets) IN
       IF Len(built) = 0
       THEN Fatal /\ UNCHANGED loc
       ELSE /\ pc' = [pc EXCEPT ![0] = "launch"]
            /\ loc' = [loc EXCEPT ![0].states = built]
    /\ UNCHANGED <<clock, states, cyc, hist, logMu, w, fs, lastWrite>>

\* The start line and the goroutines (main.go:466-473): one per target, main
\* then waits for ever.
MainLaunch ==
    /\ pc[0] = "launch"
    /\ states' = loc[0].states
    /\ pc' = [i \in {0} \cup DOMAIN states' |-> IF i = 0 THEN "select" ELSE "check"]
    /\ loc' = [i \in {0} \cup DOMAIN states' |-> IF i = 0 THEN loc[0] ELSE IdleLoc]
    /\ cyc' = [i \in DOMAIN states' |-> IdleCyc]
    /\ hist' = [i \in DOMAIN states' |-> NoEpisode]
    /\ LET s == Write(w, fs, StartLine,
                      [open |-> TRUE, rename |-> TRUE, trunc |-> TRUE,
                       n |-> Len(StartLine)])
       IN w' = s.w /\ fs' = s.fs
    /\ UNCHANGED <<clock, logMu, lastWrite>>

MainNext ==
    \/ MainOpenLog
    \/ MainLoadConfig
    \/ MainBuild
    \/ MainLaunch
    \/ Tick
    \/ \E i \in Targets : Step(i)

MainSpec == MainInit /\ [][MainNext]_vars

\* ----------------------------------------- target construction: BuildSpec

\* Longest target list of the construction specification.
MaxEntries == 2

\* Every target entry over a small choice of names, addresses and ports.
Entries ==
    [Name : {"", "web"}, IPv4 : {NoAddr, "10.0.0.1"}, IPv6 : {NoAddr, "fd00::1"},
     DPort : {-1, 0, 443}]

\* Every target list of up to MaxEntries entries.
EntryLists == UNION {[1..n -> Entries] : n \in 0..MaxEntries}

\* main at the loop of main.go:435-460 over a target list: k is the entry
\* the loop is at, states what it has appended so far, and yield (history)
\* what each entry passed has appended.
BuildInit ==
    /\ clock = 1
    /\ states = <<>>
    /\ pc = [i \in {0} |-> "build"]
    /\ \E tcs \in EntryLists :
         loc = [i \in {0} |-> [tcs |-> tcs, k |-> 1, states |-> <<>>, yield |-> <<>>]]
    /\ cyc = <<>>
    /\ hist = <<>>
    /\ logMu = 0
    /\ w = newRotatingWriter(LogPath, MaxLogSize, [x \in Paths |-> NoFile]).w
    /\ fs = [x \in Paths |-> NoFile]
    /\ lastWrite = NoWrite

\* One iteration of the loop (main.go:436-460).
BuildEntry ==
    /\ pc[0] = "build"
    /\ loc[0].k <= Len(loc[0].tcs)
    /\ LET m  == loc[0]
           st == EntryStates(m.tcs[m.k])
       IN loc' = [loc EXCEPT ![0] = [m EXCEPT !.k = @ + 1,
                                               !.states = @ \o st,
                                               !.yield = Append(@, st)]]
    /\ UNCHANGED <<clock, states, pc, cyc, hist, logMu, w, fs, lastWrite>>

\* The end of the loop.
BuildDone ==
    /\ pc[0] = "build"
    /\ loc[0].k > Len(loc[0].tcs)
    /\ pc' = [pc EXCEPT ![0] = "built"]
    /\ UNCHANGED <<clock, states, loc, cyc, hist, logMu, w, fs, lastWrite>>

BuildNext == BuildEntry \/ BuildDone

BuildSpec == BuildInit /\ [][BuildNext]_vars

\* ------------------------------------------- calls that may hang: HangSpec

\* The steps of goroutine i that are calls out of the program which may take
\* long or never return: runMTR waits for the mtr process without a timeout
\* (main.go:164-168), sendToDiscord for the webhook (main.go:202-227).
Slow(i) == i \in Targets /\ (Trace(i) \/ AlertDown(i) \/ AlertUp(i))

\* The other steps of goroutine i.
Quick(i) ==
    i \in Targets /\ (Probe(i) \/ LogLock(i) \/ LogWrite(i) \/ Save(i) \/ SetUp(i) \/ Sleep(i))

\* The goroutines under Go's scheduler, with nothing promised of the calls
\* that may hang: a goroutine inside one of them may stay there for ever.
HangSpec ==
    /\ FairInit /\ [][FairNext]_vars
    /\ \A i \in TargetIds : WF_vars(Quick(i))
    /\ \A i \in TargetIds : SF_vars(i \in Targets /\ LogLock(i))

\* ================================================================= claims

\* The record of target i's cycle, and the kind of cycle it is.
SelfTransition(c) == c.startDown = (c.err # "ok")
UpToDown(c) == ~c.startDown /\ c.err # "ok"
DownToUp(c) == c.startDown /\ c.err = "ok"

\* Target i has finished the work of its cycle.
CycleDone(i) == pc[i] = "sleep" /\ cyc[i].active

\* C1: side effects happen only in a cycle that changes the status.  A failed
\* probe while Up sends exactly one down alert (and no up alert), a
\* successful probe while Down sends exactly one up alert (and no down
\* alert), and a successful probe while Up or a failed probe while Down sends
\* no alert, runs no trace, saves no trace and logs nothing; the status is
\* changed at the end of exactly the first two.
C1_SideEffectsOnlyOnTransition ==
    \A i \in Targets :
      LET c == cyc[i] IN
      c.active =>
        /\ SelfTransition(c) =>
             /\ c.downAlerts = 0 /\ c.upAlerts = 0
             /\ c.traces = 0 /\ c.saves = 0 /\ ~c.logged
             /\ states[i].Down = c.startDown
        /\ UpToDown(c) =>
             /\ c.upAlerts = 0 /\ c.downAlerts <= 1
             /\ CycleDone(i) => c.downAlerts = 1 /\ states[i].Down
        /\ DownToUp(c) =>
             /\ c.downAlerts = 0 /\ c.upAlerts <= 1
             /\ CycleDone(i) => c.upAlerts = 1 /\ ~states[i].Down

\* C1 witness: a target whose down alert went out in an earlier cycle has
\* finished a later cycle in which the probe failed again.
C1_Witness ==
    \E i \in Targets :
      /\ CycleDone(i)
      /\ cyc[i].startDown /\ cyc[i].err = "timeout"
      /\ hist[i].alerts = 1

\* C2: trace capture runs if and only if the cycle takes the target from Up
\* to Down on a timeout-class failure: by the time the down alert is due (and
\* at the end of the cycle) runMTR has run exactly once in such a cycle, and
\* in no other cycle does it ever run.
C2_TraceIffTimeout ==
    \A i \in Targets :
      LET c == cyc[i]
          due == UpToDown(c) /\ c.err = "timeout"
      IN
      c.active =>
        /\ c.traces <= (IF due THEN 1 ELSE 0)
        /\ (pc[i] = "alertDown" \/ CycleDone(i)) => c.traces = (IF due THEN 1 ELSE 0)

\* C2 witness: one target has gone down on a timeout with its trace run,
\* another on a non-timeout failure with its alert sent and no trace.
C2_Witness ==
    \E i \in Targets, j \in Targets :
      /\ CycleDone(i) /\ UpToDown(cyc[i]) /\ cyc[i].err = "timeout"
      /\ cyc[i].traces = 1 /\ cyc[i].downAlerts = 1
      /\ CycleDone(j) /\ UpToDown(cyc[j]) /\ cyc[j].err = "other"
      /\ cyc[j].traces = 0 /\ cyc[j].downAlerts = 1

\* d rounded to a whole number of seconds, halves away from zero.
IsRounded(r, d) ==
    LET e == IF r >= d THEN r - d ELSE d - r IN
    /\ r % TicksPerSec = 0
    /\ 2 * e <= TicksPerSec
    /\ (2 * e = TicksPerSec) => (IF d >= 0 THEN r > d ELSE r < d)

\* While target i is down, and through the cycle that brings it back up,
\* DownSince is the time of the probe that opened the episode; the downtime
\* logged and the downtime sent with the up alert are the recovery probe's
\* time less that time, rounded.
C3_Inv ==
    \A i \in Targets :
      LET c == cyc[i] IN
      /\ states[i].Down => states[i].DownSince = hist[i].since
      /\ (c.active /\ DownToUp(c)) =>
           /\ IsRounded(c.logDur, c.now - hist[i].since)
           /\ c.upAlerts > 0 => IsRounded(c.dur, c.now - hist[i].since)

\* DownSince is written only by the step that takes the target from Up to
\* Down.
C3_Step ==
    \A i \in Targets :
      states'[i].DownSince # states[i].DownSince =>
        ~states[i].Down /\ states'[i].Down

\* C3: down_since is written once per down episode, in the cycle of the
\* Up-to-Down transition, and no later failed probe changes it; the downtime
\* of the recovery log line and of the up alert is the recovery cycle's time
\* minus the down_since of the matching transition, rounded to whole seconds.
C3_DownSinceOncePerEpisode == []C3_Inv /\ [][C3_Step]_vars

\* C3 witness: an up alert has gone out for an episode that lasted a
\* fraction of a second, which rounds to a whole one.
C3_Witness ==
    \E i \in Targets :
      /\ cyc[i].active /\ DownToUp(cyc[i]) /\ cyc[i].upAlerts = 1
      /\ cyc[i].now - hist[i].since > 0
      /\ (cyc[i].now - hist[i].since) % TicksPerSec # 0
      /\ cyc[i].dur # cyc[i].now - hist[i].since

\* C4 as claimed: down_since is set if and only if the status is Down.
C4_SetIffDown ==
    \A i \in Targets : (states[i].DownSince # 0) <=> states[i].Down

\* C4, amended: down_since is set whenever the status is Down, and it is
\* never cleared: while the target is Up it is unset only until the first
\* down episode, and after a recovery it still holds the start of the last
\* episode.
C4_SetWhileDownNeverCleared ==
    \A i \in Targets :
      /\ states[i].Down => states[i].DownSince # 0
      /\ states[i].DownSince = hist[i].since

\* C4 witness: a target that has recovered is Up with down_since still set.
C4_Witness ==
    \E i \in Targets :
      /\ ~states[i].Down /\ states[i].DownSince # 0
      /\ CycleDone(i) /\ DownToUp(cyc[i])

\* The log files other than the active one and its backup.
OtherGenerations == Paths \ {w.path, BackupPath(w.path)}

\* C5 as claimed, of the Writes that return without error: a Write that
\* rotates leaves in the backup exactly what the active file held before the
\* call, and in the active file exactly the bytes written.
C5_RotationKeepsContent ==
    (lastWrite.called /\ lastWrite.rotated /\ ~lastWrite.err) =>
      /\ fs[BackupPath(w.path)] = lastWrite.pre[w.path]
      /\ fs[w.path] = [exists |-> TRUE, data |-> lastWrite.p]

\* C6 as claimed: Write(p) rotates if and only if the active file's size
\* plus len(p) is above the threshold, and no second backup generation
\* exists.
C6_RotatesIffOverThreshold ==
    /\ lastWrite.called =>
         (lastWrite.rotated <=>
            Len(lastWrite.pre[w.path].data) + Len(lastWrite.p) > w.maxSize)
    /\ \A x \in OtherGenerations : ~fs[x].exists

\* C6, amended: Write(p) rotates if and only if Stat on the sink's handle
\* succeeds (the handle is open) and the active file's size plus len(p) is
\* strictly above the threshold; a write that brings the file to exactly the
\* threshold does not rotate, Write on a handle a failed rotation left closed
\* never rotates, and at most one backup generation exists.
C6_RotatesIffStatOkAndOverThreshold ==
    /\ lastWrite.called =>
         (lastWrite.rotated <=>
            /\ lastWrite.preFile = "open"
            /\ Len(lastWrite.pre[w.path].data) + Len(lastWrite.p) > w.maxSize)
    /\ \A x \in OtherGenerations : ~fs[x].exists

\* C6 witness: after a rotation made by an earlier Write, a Write has brought
\* the active file to exactly the threshold without rotating.
C6_Witness ==
    /\ lastWrite.called /\ ~lastWrite.rotated /\ ~lastWrite.err
    /\ Len(lastWrite.p) > 0
    /\ Len(lastWrite.pre[w.path].data) + Len(lastWrite.p) = w.maxSize
    /\ Len(fs[w.path].data) = w.maxSize
    /\ fs[BackupPath(w.path)].exists
    /\ \E k \in DOMAIN fs[BackupPath(w.path)].data :
         fs[BackupPath(w.path)].data[k] \notin {"old", "older"}

\* A goroutine inside the sink's Write holds the logger's mutex, and no
\* other goroutine is inside Write.
C7_Inv ==
    \A i \in Targets :
      pc[i] = "write" =>
        /\ logMu = i
        /\ \A j \in Targets \ {i} : pc[j] # "write"

\* The writer and the log files change only in the step in which the one
\* goroutine inside Write completes its call.
C7_Step ==
    (w' # w \/ fs' # fs) =>
      \E i \in Targets :
        /\ pc[i] = "write" /\ logMu = i /\ pc'[i] # "write"
        /\ \A j \in Targets \ {i} : pc'[j] = pc[j]

\* C7: each write of a monitor loop to the log sink, with the size check and
\* the rotation it triggers, is one indivisible unit: no two loops are inside
\* the sink's Write at the same time, and nothing but the one call in
\* progress touches the writer's handle or the files.
C7_WriteIsSerialised == []C7_Inv /\ [][C7_Step]_vars

\* C7 witness: one loop is inside a Write that is about to rotate while
\* another loop waits with a line of its own.
C7_Witness ==
    \E i \in Targets, j \in Targets :
      /\ i # j
      /\ pc[i] = "write" /\ NeedsRotate(w, fs, loc[i].line)
      /\ pc[j] = "lock" /\ loc[j].line # <<>>

\* A step of target i leaves every other target's status and down_since as
\* they were.
C8_Step ==
    /\ DOMAIN states' = DOMAIN states
    /\ \A i \in Targets :
         Step(i) =>
           \A j \in Targets \ {i} :
             /\ states'[j].Down = states[j].Down
             /\ states'[j].DownSince = states[j].DownSince

\* C8: target state machines are independent: in every interleaving, a step
\* of one target's monitor leaves the status and down_since of every other
\* target unchanged, the sibling target of the same configuration entry
\* included.
C8_TargetsIndependent == [][C8_Step]_vars

\* C8 witness: of the two targets of one configuration entry, one is down
\* with its alert sent and the other has just been probed and found up, never
\* having been down.
C8_Witness ==
    \E i \in Targets, j \in Targets :
      /\ i # j /\ states[i].Name = states[j].Name
      /\ states[i].IPVersion # states[j].IPVersion
      /\ states[i].Down /\ hist[i].alerts = 1
      /\ CycleDone(j) /\ SelfTransition(cyc[j])
      /\ ~states[j].Down /\ states[j].DownSince = 0

\* Goroutine i stands before a probe; only Probe(i) takes it on from there.
AtProbe(i) == i \in Targets => pc[i] = "check"

\* Goroutine i is in the middle of a cycle, its probe made.
PastProbe(i) == i \in Targets => pc[i] # "check"

\* C9: under fair scheduling every started target is probed again and again,
\* whatever the probes, traces, notifications and log writes come to: its
\* loop stands before a probe infinitely often and is past it infinitely
\* often.
C9_ProbedInfinitelyOften ==
    \A i \in TargetIds : []<>AtProbe(i) /\ []<>PastProbe(i)

\* C9 witness: a target is back at its probe after a cycle whose
\* notification failed, with the log sink broken by a failed rotation.
C9_Witness ==
    \E i \in Targets :
      /\ pc[i] = "check"
      /\ states[i].Down /\ hist[i].delivered = "failed"
      /\ w.file = "closed"

\* C10: a delivery failure has no effect on the monitor state and is never
\* retried.  At the end of a transition cycle the status and down_since are
\* what the probe made them, whether the delivery succeeded or failed; an
\* episode sees at most one down alert attempt and a cycle at most one up
\* alert attempt, so a failed alert is not sent again.
C10_DeliveryFailureIgnored ==
    \A i \in Targets :
      LET c == cyc[i] IN
      /\ hist[i].alerts <= 1
      /\ c.upAlerts <= 1
      /\ (c.active /\ ~UpToDown(c)) => c.downAlerts = 0
      /\ (c.active /\ ~DownToUp(c)) => c.upAlerts = 0
      /\ (CycleDone(i) /\ UpToDown(c)) =>
           /\ c.delivered \in {"ok", "failed"}
           /\ states[i].Down /\ states[i].DownSince = c.now
      /\ (CycleDone(i) /\ DownToUp(c)) =>
           /\ c.delivered \in {"ok", "failed"}
           /\ ~states[i].Down /\ states[i].DownSince = hist[i].since

\* C10 witness: in an episode whose down alert failed to be delivered, a
\* later cycle's probe has failed again and the cycle has ended without
\* another attempt.
C10_Witness ==
    \E i \in Targets :
      /\ CycleDone(i) /\ cyc[i].startDown /\ cyc[i].err # "ok"
      /\ hist[i].delivered = "failed" /\ hist[i].alerts = 1
      /\ states[i].Down

\* Two targets differ: in address, port or address family.
DifferentTargets(s, t) ==
    s.IP # t.IP \/ s.Port # t.Port \/ s.IPVersion # t.IPVersion

\* C11 as claimed: the trace files of incidents on two different targets
\* never have the same name, so that neither overwrites the other (every
\* trace file a target has had written still holds that target's trace,
\* unless a later incident of the same target within the same second took
\* its place); two incidents share a file name only when they are of the
\* same target and of the same second.
C11_TraceFilesNeverCollide ==
    \A i \in Targets, j \in Targets :
      \A a \in hist[i], b \in hist[j] :
        /\ DifferentTargets(states[i], states[j]) => a.file # b.file
        /\ a.file = b.file =>
             /\ ~DifferentTargets(states[i], states[j])
             /\ Stamp(a.at) = Stamp(b.at)
        /\ DifferentTargets(states[i], states[j]) => cyc[a.file] = i

\* The fatal startup conditions of a start of main, read off what main
\* finds: the log file cannot be opened, the webhook is missing, the time
\* zone cannot be loaded, there is neither a target list nor a legacy field,
\* or the targets listed yield no usable target.
FatalStartup(m) ==
    \/ ~m.logOpen
    \/ m.cfg.Webhook = ""
    \/ m.cfg.Timezone = ZoneBad
    \/ /\ m.cfg.Targets = <<>>
       /\ m.cfg.IPv4 = NoAddr /\ m.cfg.IPv6 = NoAddr /\ m.cfg.DPort = 0
    \/ \A k \in DOMAIN LegacyTargets(m.cfg) :
         LET tc == LegacyTargets(m.cfg)[k] IN
         tc.DPort <= 0 \/ (tc.IPv4 = NoAddr /\ tc.IPv6 = NoAddr)

\* C12: in a run in which a fatal startup condition holds, main never gets
\* to start a monitor loop: no target state and no goroutine but main
\* exists, so no probe, trace or notification is ever made.
C12_FatalStartupStartsNothing ==
    FatalStartup(loc[0]) =>
      /\ states = <<>>
      /\ DOMAIN pc = {0}
      /\ pc[0] \notin {"launch", "select"}
      /\ cyc = <<>>

\* C12 witness: main has exited on the last of the checks, the targets
\* listed having yielded no usable target, everything before having passed.
C12_Witness ==
    /\ pc[0] = "exit"
    /\ loc[0].logOpen /\ loc[0].loadOk
    /\ loc[0].cfg.Webhook # "" /\ loc[0].cfg.Timezone # ZoneBad
    /\ Len(loc[0].cfg.Targets) > 0
    /\ BuildStates(loc[0].cfg.Targets) = <<>>

\* The address fields of an entry that are populated, by family.
Populated(tc) ==
    (IF tc.IPv4 # NoAddr THEN <<[ver |-> "IPv4", ip |-> tc.IPv4]>> ELSE <<>>)
    \o (IF tc.IPv6 # NoAddr THEN <<[ver |-> "IPv6", ip |-> tc.IPv6]>> ELSE <<>>)

\* The targets st are one per populated address field of the entry tc, of
\* its name and port, each starting Up.
OnePerAddress(tc, st) ==
    /\ Len(st) = Len(Populated(tc))
    /\ \A n \in DOMAIN st :
         /\ st[n].IPVersion = Populated(tc)[n].ver
         /\ st[n].IP = Populated(tc)[n].ip
         /\ st[n].Name = tc.Name /\ st[n].Port = tc.DPort
         /\ ~st[n].Down /\ st[n].DownSince = 0

\* The targets constructed are the yields of the entries passed, in order.
YieldsInOrder(m) ==
    /\ Len(m.yield) = m.k - 1
    /\ m.states = BuildStates(SubSeq(m.tcs, 1, m.k - 1))

\* C13 as claimed: every configured entry yields exactly one target per
\* populated address field, of its name and port, starting Up.
C13_OnePerPopulatedAddress ==
    /\ YieldsInOrder(loc[0])
    /\ \A n \in DOMAIN loc[0].yield :
         OnePerAddress(loc[0].tcs[n], loc[0].yield[n])

\* C13, amended: every configured entry with a positive port yields exactly
\* one target per populated address field (two of its name and port for both
\* addresses, one for one, none for neither), each starting Up; an entry
\* whose port is missing, zero or negative yields no target whatever
\* addresses it has.
C13_OnePerPopulatedAddressOfPortedEntry ==
    /\ YieldsInOrder(loc[0])
    /\ \A n \in DOMAIN loc[0].yield :
         IF loc[0].tcs[n].DPort > 0
         THEN OnePerAddress(loc[0].tcs[n], loc[0].yield[n])
         ELSE loc[0].yield[n] = <<>>

\* C13 witness: the construction has ended on a list of an entry with both
\* addresses and an entry with an address and no port, with two targets.
C13_Witness ==
    /\ pc[0] = "built"
    /\ Len(loc[0].tcs) = 2
    /\ \E a \in {1, 2}, b \in {1, 2} :
         /\ Len(Populated(loc[0].tcs[a])) = 2 /\ loc[0].tcs[a].DPort > 0
         /\ Len(Populated(loc[0].tcs[b])) = 1 /\ loc[0].tcs[b].DPort = 0
    /\ Len(loc[0].states) = 2

\* Target i has nothing in the hands of the logger: every log.Printf of its
\* cycle so far has returned.
LogQuiet(i) == pc[i] \notin {"lock", "write"} /\ loc[i].line = <<>>

\* What holds at every point of a cycle that takes target i from Up to Down.
C14_Inv ==
    \A i \in Targets :
      LET c == cyc[i] IN
      (c.active /\ UpToDown(c)) =>
        \* down_since is recorded before anything else is done
        /\ states[i].Down /\ states[i].DownSince = c.now
        /\ c.logged
        \* nothing is traced or sent while the DOWN line is being logged
        /\ (~LogQuiet(i) /\ c.traces = 0 /\ c.downAlerts = 0) => c.saves = 0
        /\ c.saves > 0 => c.traces = 1
        /\ c.downAlerts > 0 =>
             /\ c.err = "timeout" => c.traces = 1
             /\ c.err # "timeout" => c.traces = 0 /\ c.saves = 0
        \* the cycle ends, and the next probe is due, only once the alert
        \* has been delivered or has failed
        /\ pc[i] = "sleep" => c.downAlerts = 1 /\ c.delivered \in {"ok", "failed"}

\* What holds of every step of a cycle that takes target i from Up to Down.
C14_Step ==
    \A i \in Targets :
      LET c == cyc[i]
          d == cyc'[i]
      IN
      (c.active /\ UpToDown(c)) =>
        \* the trace starts once the DOWN line is logged
        /\ d.traces > c.traces =>
             /\ LogQuiet(i) /\ c.saves = 0 /\ c.downAlerts = 0
        \* its output is persisted once it is captured (and its failure
        \* logged), and only if there is any
        /\ d.saves > c.saves =>
             /\ LogQuiet(i) /\ c.traces = 1 /\ c.downAlerts = 0
             /\ loc[i].mtrOut # <<>>
        \* the alert is sent once all of that is done
        /\ d.downAlerts > c.downAlerts =>
             /\ LogQuiet(i)
             /\ d.traces = c.traces /\ d.saves = c.saves
             /\ c.err = "timeout" =>
                  /\ c.traces = 1
                  /\ loc[i].mtrOut # <<>> => c.saves = 1
             /\ c.err # "timeout" => loc[i].mtrOut = NoMtr
        \* the next probe starts only after the alert
        /\ (pc[i] # "check" /\ pc'[i] = "check") =>
             /\ c.downAlerts = 1 /\ c.delivered \in {"ok", "failed"}
             /\ LogQuiet(i)

\* C14: in a cycle that takes a target from Up to Down the side effects come
\* in this order: down_since is recorded, the transition is logged, then on
\* a timeout the trace is captured and its output (when there is any)
\* persisted, and only then the down alert is sent; the target's loop goes
\* back to its probe only after the delivery has succeeded or failed.
C14_DownSideEffectsInOrder == []C14_Inv /\ [][C14_Step]_vars

\* C14 witness: a cycle that took a target down on a timeout has ended with
\* its trace captured and persisted and its alert failed, the failure
\* logged.
C14_Witness ==
    \E i \in Targets :
      /\ CycleDone(i) /\ UpToDown(cyc[i]) /\ cyc[i].err = "timeout"
      /\ cyc[i].traces = 1 /\ cyc[i].saves = 1
      /\ cyc[i].downAlerts = 1 /\ cyc[i].delivered = "failed"
      /\ LogQuiet(i)

\* C15: a trace or a notification that is slow or never returns in one
\* target's loop delays that target only.  Whatever becomes of the other
\* targets' traces and notifications, a target whose own traces and
\* notifications return is probed again and again, and so goes through its
\* own transitions and alerts.
C15_HangDelaysOnlyItsTarget ==
    \A i \in TargetIds :
      WF_vars(Slow(i)) => ([]<>AtProbe(i) /\ []<>PastProbe(i))

\* C15 witness: one target is inside its trace while its sibling, having
\* gone down and had its alert sent, has recovered and sent its up alert.
C15_Witness ==
    \E s \in Targets, i \in Targets :
      /\ s # i
      /\ pc[s] = "trace" /\ loc[s].err = "timeout"
      /\ CycleDone(i) /\ DownToUp(cyc[i]) /\ cyc[i].upAlerts = 1
      /\ hist[i].alerts = 1

\* Goroutine i is between two cycles: the last one has ended, the next
\* probe is not made yet.
BetweenCycles(i) == pc[i] \in {"sleep", "check"}

\* C16: the alerts of a target alternate down, up, down, ..., beginning
\* with a down alert.  The down alerts attempted less the up alerts
\* attempted are never below 0 (no up alert without an earlier unmatched
\* down alert) and never above 1 (no two down alerts in a row), and at the
\* end of every cycle they are 1 when the status is Down and 0 when it is
\* Up.
C16_AlertsAlternate ==
    \A i \in Targets :
      /\ hist[i].unmatched \in {0, 1}
      /\ BetweenCycles(i) =>
           hist[i].unmatched = (IF states[i].Down THEN 1 ELSE 0)

\* C16 witness: a target whose down alert was attempted has recovered, its
\* up alert has been attempted, and the cycle has ended with the two
\* matched.
C16_Witness ==
    \E i \in Targets :
      /\ CycleDone(i) /\ DownToUp(cyc[i])
      /\ cyc[i].upAlerts = 1 /\ hist[i].alerts = 1
      /\ hist[i].unmatched = 0 /\ ~states[i].Down

\* C17: the active file does not outgrow the threshold.  After every Write
\* that returns without error and whose payload is no longer than the
\* threshold the active file's size is at most the threshold, whatever the
\* file held before; so from a file that starts within the threshold, with
\* writes no longer than the threshold, the size never exceeds it.
C17_ActiveFileWithinThreshold ==
    (lastWrite.called /\ ~lastWrite.err /\ Len(lastWrite.p) <= w.maxSize) =>
      Len(fs[w.path].data) <= w.maxSize

\* C17 witness: on a file that was full to the threshold, a Write of a
\* payload as long as the threshold has rotated and left the file full to
\* the threshold again.
C17_Witness ==
    /\ lastWrite.called /\ ~lastWrite.err /\ lastWrite.rotated
    /\ Len(lastWrite.p) = w.maxSize
    /\ Len(lastWrite.pre[w.path].data) = w.maxSize
    /\ Len(fs[w.path].data) = w.maxSize

\* The sink's handle is the closed one a failed rotation left behind.
SinkBroken == w.file = "closed"

\* The lines the program logs.
LogLines == {Render(1), Render(2)}

\* What every Write the logger can make in this state comes to: one that
\* rotates and fails to re-create the file returns an error, appends nothing
\* and leaves the handle closed; one on the closed handle returns an error
\* and changes neither the files nor the handle.
C18_Inv ==
    \A p \in LogLines : \A io \in IoOutcomes(w, fs, p) :
      LET r == Write(w, fs, p, io) IN
      /\ (~SinkBroken /\ NeedsRotate(w, fs, p) /\ ~io.trunc) =>
           /\ r.err /\ r.n = 0
           /\ r.w.file = "closed"
           /\ r.fs[w.path] \in {NoFile, fs[w.path]}
      /\ SinkBroken =>
           /\ r.err /\ r.n = 0 /\ ~r.rotated
           /\ r.w = w /\ r.fs = fs

\* No step mends a broken sink or writes to its files, and the sink breaks
\* only by a Write that appends nothing.
C18_Step ==
    /\ SinkBroken => (w' = w /\ fs' = fs)
    /\ (~SinkBroken /\ w'.file = "closed") => fs'[w.path] \in {NoFile, fs[w.path]}

\* C18: when a rotation fails to re-create the active file, that Write
\* returns an error and appends nothing, the handle stays closed, and every
\* later Write returns an error without appending or re-opening (the sink
\* never recovers); the monitor loops go on all the same: in a run whose
\* sink is broken (it then stays broken) every target is at its probe and
\* past it infinitely often.
C18_BrokenSinkStaysBrokenLoopsGoOn ==
    /\ []C18_Inv
    /\ [][C18_Step]_vars
    /\ \A i \in TargetIds :
         /\ []<>(SinkBroken => AtProbe(i))
         /\ []<>(SinkBroken => PastProbe(i))

\* C18 witness: with the sink broken, the only target has gone down, its
\* alert has been delivered and the cycle has ended.
C18_Witness ==
    /\ SinkBroken
    /\ Len(states) = 1
    /\ CycleDone(1) /\ UpToDown(cyc[1])
    /\ cyc[1].downAlerts = 1 /\ cyc[1].delivered = "ok"
    /\ fs[w.path] = NoFile

====
